---- MODULE Spec2Model ----
(***************************************************************************)
(* Model of the marker-tree schema combinators of src/src/index.ts:        *)
(* simple, complex and byKey, the Marker objects they build, and the three *)
(* things a consumer can do with them: invoke a schema with a root value,  *)
(* read a property of a Marker, call a keyed Marker with a key.            *)
(*                                                                         *)
(* A JavaScript string is a sequence of one-character strings, so that     *)
(* template-literal concatenation, the "/" separator and the quoting of    *)
(* the selector are computed, not assumed.                                 *)
(***************************************************************************)
EXTENDS Integers, Sequences, FiniteSets, TLC

\* ------------------------------------------------------------------ bounds
\* Most Marker objects a behaviour allocates.
MaxObjs == 4
\* Most times a behaviour invokes a schema with a root value.
MaxRoots == 2
\* Path length at which the eager mutant of complex stops descending.
MaxEagerLen == 5

\* --------------------------------------------------------------- state
VARIABLES
    objs,    \* the Marker objects allocated so far, each with how it was reached
    calls,   \* calls[s]: how many times declared schema s has been called
    reads,   \* reads[<<o, key>>]: how many times the getter of key on object o ran
    roots,   \* how many times a schema was invoked with a root value
    ret      \* what the last operation returned

vars == <<objs, calls, reads, roots, ret>>

\* ------------------------------------------------------------ strings
DATA_TEST_ATTR == <<"d", "a", "t", "a", "-", "t", "e", "s", "t">>

ValueName == <<"v", "a", "l", "u", "e">>
SelectorName == <<"s", "e", "l", "e", "c", "t", "o", "r">>
NodePropsName == <<"n", "o", "d", "e", "P", "r", "o", "p", "s">>

Slash == <<"/">>

Digits == <<"0", "1", "2", "3", "4", "5", "6", "7", "8", "9">>

\* String(n) for an integer n: decimal digits, "-" in front of a negative.
RECURSIVE NatToString(_)
NatToString(n) ==
    IF n < 10 THEN <<Digits[n + 1]>>
    ELSE NatToString(n \div 10) \o <<Digits[(n % 10) + 1]>>

NumberToString(n) == IF n < 0 THEN <<"-">> \o NatToString(-n) ELSE NatToString(n)

\* A key handed to a keyed Marker is a string or a number.
StrKey(s) == [t |-> "string", s |-> s, n |-> 0]
NumKey(n) == [t |-> "number", s |-> <<>>, n |-> n]

\* What `${key}` makes of a key inside the template literal.
Stringify(key) == IF key.t = "number" THEN NumberToString(key.n) ELSE key.s

\* Mutant: a separator after the key as well.
JoinPath_TrailingSlash(value, key) == value \o Slash \o key \o Slash

\* Mutant: the separator forgotten.
JoinPath_NoSeparator(value, key) == value \o key

\* `${value}/${key}` with key already a string.
JoinPath(value, key) == value \o Slash \o key

\* Mutant: the value left unquoted.
SelectorOf_Unquoted(value) == <<"[">> \o DATA_TEST_ATTR \o <<"=">> \o value \o <<"]">>

\* `[${DATA_TEST_ATTR}='${value}']`
SelectorOf(value) == <<"[">> \o DATA_TEST_ATTR \o <<"=", "'">> \o value \o <<"'", "]">>

\* ------------------------------------------------- property descriptors
\* An own property of a Marker object is a data property holding a string,
\* a data property holding the attribute object, or an accessor whose
\* getter closes over (child, value, key).
StrProp(s) == [kind |-> "str", str |-> s, attrs |-> <<>>, child |-> 0, value |-> <<>>, key |-> <<>>]
ObjProp(name, s) == [kind |-> "obj", str |-> <<>>, attrs |-> <<<<name, s>>>>, child |-> 0, value |-> <<>>, key |-> <<>>]
GetProp(child, value, key) == [kind |-> "get", str |-> <<>>, attrs |-> <<>>, child |-> child, value |-> value, key |-> key]

\* ------------------------------------------------------- schema arena
\* The consumer's declarations.  A schema is simple itself, complex(nodes)
\* with nodes the declared <<key, child>> pairs in insertion order, or
\* byKey(schema).  Children are named by their index in Arena; schema 5
\* holds itself under key "s" (its nodes mapping was filled after complex
\* returned; the closure reads the mapping at every invocation).
SimpleDecl == [kind |-> "simple", nodes |-> <<>>, schema |-> 0]
ComplexDecl(nodes) == [kind |-> "complex", nodes |-> nodes, schema |-> 0]
ByKeyDecl(schema) == [kind |-> "byKey", nodes |-> <<>>, schema |-> schema]

Arena ==
    << SimpleDecl,                                             \* 1  simple
       ComplexDecl(<<>>),                                      \* 2  complex({})
       ByKeyDecl(1),                                           \* 3  byKey(simple)
       ComplexDecl(<< <<<<"c">>, 1>>, <<<<"i">>, 3>> >>),      \* 4  complex({c: simple, i: byKey(simple)})
       ComplexDecl(<< <<<<"a">>, 4>>, <<<<"s">>, 5>>,
                      <<<<"l">>, 9>>, <<<<"m">>, 11>> >>),     \* 5  complex({a: #4, s: #5, l: #9, m: #11})
       ComplexDecl(<< <<ValueName, 7>> >>),                    \* 6  complex({value: #7})
       ComplexDecl(<< <<SelectorName, 8>> >>),                 \* 7  complex({selector: #8})
       ComplexDecl(<< <<NodePropsName, 2>> >>),                \* 8  complex({nodeProps: complex({})})
       ByKeyDecl(4),                                           \* 9  byKey(#4)
       ComplexDecl(<< <<<<"c", "/", "i">>, 1>>, <<<<>>, 1>>,
                      <<<<"c">>, 4>> >>),                      \* 10 complex({"c/i": simple, "": simple, c: #4})
       ByKeyDecl(6)                                            \* 11 byKey(#6)
    >>

SchemaIds == 1..Len(Arena)

\* ------------------------------------------------------------ Markers
\* A Marker object: its own properties, and for the function object byKey
\* returns, the schema and value its closure holds.
PlainMarker(props) == [callable |-> FALSE, schema |-> 0, value |-> <<>>, props |-> props]
KeyedMarker(schema, value, props) == [callable |-> TRUE, schema |-> schema, value |-> value, props |-> props]

\* What running a schema gave: the object returned, the schema calls made
\* on the way (<<schema, argument>> in call order) and the deepest call
\* stack reached, counted in frames from the schema's own.
Outcome(result, invoked, depth) == [result |-> result, invoked |-> invoked, depth |-> depth]

\* Mutant: a module-level counter (here the number of objects built so
\* far) leaks into the identifier.
simple_Counting(value) ==
    Outcome(PlainMarker((ValueName :> StrProp(value \o <<Digits[(Len(objs) % 10) + 1]>>))
                        @@ (SelectorName :> StrProp(SelectorOf(value)))
                        @@ (NodePropsName :> ObjProp(DATA_TEST_ATTR, value))),
            <<>>, 1)

simple(value) ==
    Outcome(PlainMarker((ValueName :> StrProp(value))
                        @@ (SelectorName :> StrProp(SelectorOf(value)))
                        @@ (NodePropsName :> ObjProp(DATA_TEST_ATTR, value))),
            <<>>, 1)

\* Mutant: a property the object already has is left as it is.
DefineProperty_KeepExisting(props, key, desc) == props @@ (key :> desc)

\* Object.defineProperty(result, key, {get}): the accessor replaces an own
\* property of that name (all own properties here are configurable).
DefineProperty(props, key, desc) == (key :> desc) @@ props

\* Object.keys(nodes).forEach(...), from the i-th declared key on.
RECURSIVE DefineGetters(_, _, _, _)
DefineGetters(props, nodes, value, i) ==
    IF i > Len(nodes) THEN props
    ELSE DefineGetters(DefineProperty(props, nodes[i][1], GetProp(nodes[i][2], value, nodes[i][1])),
                       nodes, value, i + 1)

RECURSIVE Call(_, _)

\* Mutant: every child built when the composite is (cut off once the path
\* is MaxEagerLen long, where a schema that holds itself would never end).
RECURSIVE EagerCalls(_, _, _)
EagerCalls(nodes, value, i) ==
    IF i > Len(nodes) \/ Len(value) >= MaxEagerLen THEN <<>>
    ELSE Call(nodes[i][2], JoinPath(value, nodes[i][1])).invoked \o EagerCalls(nodes, value, i + 1)

RECURSIVE EagerDepth(_, _, _)
EagerDepth(nodes, value, i) ==
    IF i > Len(nodes) \/ Len(value) >= MaxEagerLen THEN 0
    ELSE LET here == Call(nodes[i][2], JoinPath(value, nodes[i][1])).depth
             rest == EagerDepth(nodes, value, i + 1)
         IN IF here > rest THEN here ELSE rest

complex_Eager(nodes, value) ==
    LET base == simple(value)
        below == EagerDepth(nodes, value, 1)
    IN Outcome([base.result EXCEPT !.props = DefineGetters(@, nodes, value, 1)],
               base.invoked \o EagerCalls(nodes, value, 1),
               1 + (IF below > base.depth THEN below ELSE base.depth))

complex(nodes, value) ==
    LET base == simple(value)
    IN Outcome([base.result EXCEPT !.props = DefineGetters(@, nodes, value, 1)],
               base.invoked, 1 + base.depth)

\* Mutant: nodeProps given the selector in place of the value.
byKey_NodePropsSelector(schema, value) ==
    Outcome(KeyedMarker(schema, value,
                        (ValueName :> StrProp(value))
                        @@ (SelectorName :> StrProp(SelectorOf(value)))
                        @@ (NodePropsName :> ObjProp(DATA_TEST_ATTR, SelectorOf(value)))),
            <<>>, 1)

byKey(schema, value) ==
    Outcome(KeyedMarker(schema, value,
                        (ValueName :> StrProp(value))
                        @@ (SelectorName :> StrProp(SelectorOf(value)))
                        @@ (NodePropsName :> ObjProp(DATA_TEST_ATTR, value))),
            <<>>, 1)

\* Calling the declared schema s with argument value.
Call(s, value) ==
    LET d == Arena[s]
        out == CASE d.kind = "simple" -> simple(value)
                 [] d.kind = "complex" -> complex(d.nodes, value)
                 [] d.kind = "byKey" -> byKey(d.schema, value)
    IN [out EXCEPT !.invoked = <<<<s, value>>>> \o @]

\* Mutant: the key dropped from the path.
Getter_DropKey(child, value, key) ==
    LET out == Call(child, value)
    IN [out EXCEPT !.depth = 1 + @]

\* The getter of a declared key: () => child(`${value}/${key}`)
Getter(child, value, key) ==
    LET out == Call(child, JoinPath(value, key))
    IN [out EXCEPT !.depth = 1 + @]

\* Mutant: the container's own path handed to the schema.
KeyedCall_DropKey(schema, value, key) ==
    LET out == Call(schema, value)
    IN [out EXCEPT !.depth = 1 + @]

\* The keyed Marker called: (key) => schema(`${value}/${key}`)
KeyedCall(schema, value, key) ==
    LET out == Call(schema, JoinPath(value, Stringify(key)))
    IN [out EXCEPT !.depth = 1 + @]

\* -------------------------------------------------------------- inputs
\* The schemas the consumer invokes at top level; the others are reached
\* as children.
RootSchemas == {1, 3, 5, 6, 10}
RootValues == {<<"r">>, <<>>}
Keys == {StrKey(<<"2">>), StrKey(<<"c", "/", "k">>), StrKey(<<>>), StrKey(<<"'">>),
         NumKey(2), NumKey(10)}

\* ---------------------------------------------------------- operations
\* A heap entry: the Marker m; the schema and argument that built it; the
\* object it was read from (0: none), the root it descends from and the
\* steps from there; for the result of a keyed call, the key as passed.
Entry(m, s, arg, via, from, root, nav, key) ==
    [m |-> m, schema |-> s, arg |-> arg, via |-> via, from |-> from, root |-> root, nav |-> nav,
     key |-> key]

NoKey == StrKey(<<>>)

NoRet == [ref |-> 0, depth |-> 0]
MarkerRet(ref, depth) == [ref |-> ref, depth |-> depth]

RECURSIVE Tally(_, _, _)
Tally(count, invoked, i) ==
    IF i > Len(invoked) THEN count
    ELSE Tally([count EXCEPT ![invoked[i][1]] = @ + 1], invoked, i + 1)

Bump(count, k) == IF k \in DOMAIN count THEN [count EXCEPT ![k] = @ + 1] ELSE (k :> 1) @@ count

Init ==
    /\ objs = <<>>
    /\ calls = [s \in SchemaIds |-> 0]
    /\ reads = <<>>
    /\ roots = 0
    /\ ret = NoRet

\* schema(value) at the consumer's top level.
Invoke(s, value) ==
    /\ Len(objs) < MaxObjs
    /\ roots < MaxRoots
    /\ LET out == Call(s, value)
           id == Len(objs) + 1
       IN /\ objs' = Append(objs, Entry(out.result, s, value, "invoke", 0, id, <<>>, NoKey))
          /\ calls' = Tally(calls, out.invoked, 1)
          /\ ret' = MarkerRet(id, out.depth)
    /\ roots' = roots + 1
    /\ UNCHANGED reads

\* marker[name] for a declared key of object o: the getter runs.  (Reading
\* a data property returns what the object holds and changes nothing.)
ReadProp(o, name) ==
    LET e == objs[o]
        d == e.m.props[name]
    IN /\ d.kind = "get"
       /\ Len(objs) < MaxObjs
       /\ LET out == Getter(d.child, d.value, d.key)
              id == Len(objs) + 1
          IN /\ objs' = Append(objs, Entry(out.result, d.child, JoinPath(d.value, d.key),
                                           "get", o, e.root, Append(e.nav, name), NoKey))
             /\ calls' = Tally(calls, out.invoked, 1)
             /\ ret' = MarkerRet(id, out.depth)
       /\ reads' = Bump(reads, <<o, name>>)
       /\ UNCHANGED roots

\* marker(key) for the function object o.
CallKey(o, key) ==
    LET e == objs[o]
    IN /\ e.m.callable
       /\ Len(objs) < MaxObjs
       /\ LET out == KeyedCall(e.m.schema, e.m.value, key)
              id == Len(objs) + 1
          IN /\ objs' = Append(objs, Entry(out.result, e.m.schema,
                                           JoinPath(e.m.value, Stringify(key)),
                                           "call", o, e.root, Append(e.nav, Stringify(key)), key))
             /\ calls' = Tally(calls, out.invoked, 1)
             /\ ret' = MarkerRet(id, out.depth)
       /\ UNCHANGED <<reads, roots>>

Next ==
    \/ \E s \in RootSchemas, value \in RootValues : Invoke(s, value)
    \/ \E o \in 1..Len(objs) : \E name \in DOMAIN objs[o].m.props : ReadProp(o, name)
    \/ \E o \in 1..Len(objs), key \in Keys : CallKey(o, key)

Spec == Init /\ [][Next]_vars

\* ------------------------------------------------ vocabulary of the claims
Entries == 1..Len(objs)

\* The declared schema s names key among its children.
Declares(s, key) == \E n \in 1..Len(Arena[s].nodes) : Arena[s].nodes[n][1] = key

\* v followed by "/" + step for each step of nav, in order.
RECURSIVE PathFrom(_, _)
PathFrom(v, nav) ==
    IF nav = <<>> THEN v ELSE PathFrom(v \o <<"/">> \o Head(nav), Tail(nav))

HasSlash(s) == \E n \in 1..Len(s) : s[n] = "/"

\* s read as segments joined with "/" has no empty segment.
NoEmptySegment(s) ==
    /\ s # <<>>
    /\ s[1] # "/"
    /\ s[Len(s)] # "/"
    /\ \A n \in 1..(Len(s) - 1) : ~(s[n] = "/" /\ s[n + 1] = "/")

\* The value, selector and nodeProps a read of the Marker m gives, when the
\* property still is the data property the constructor set.
IsStr(m, name) == m.props[name].kind = "str"
StrOf(m, name) == m.props[name].str

TypeOK == Len(objs) <= MaxObjs

\* ---------------------------------------------------------------- C1
\* C1 as stated: every Marker reached from a root invoked with v by steps
\* s1..sn reads value = v/s1/../sn, whatever the schema declares.
C1_PathCompositionEverywhere ==
    \A i \in Entries :
        /\ IsStr(objs[i].m, ValueName)
        /\ StrOf(objs[i].m, ValueName) = PathFrom(objs[objs[i].root].arg, objs[i].nav)

\* C1 (amended): path composition law.  Every Marker reached from a root
\* invoked with v by steps s1..sn reads value = v/s1/../sn, unless the
\* complex schema that built it declares a child key named value.
C1_PathComposition ==
    \A i \in Entries :
        ~Declares(objs[i].schema, ValueName) =>
            /\ IsStr(objs[i].m, ValueName)
            /\ StrOf(objs[i].m, ValueName) = PathFrom(objs[objs[i].root].arg, objs[i].nav)

\* root.a.i(2) of complex({a: complex({i: byKey(simple)})}) reads "r/a/i/2".
C1_Witness ==
    \E i \in Entries :
        /\ objs[i].nav = << <<"a">>, <<"i">>, <<"2">> >>
        /\ objs[i].via = "call"
        /\ StrOf(objs[i].m, ValueName) = <<"r", "/", "a", "/", "i", "/", "2">>
        /\ StrOf(objs[objs[i].root].m, ValueName) = <<"r">>

\* ---------------------------------------------------------------- C2
\* C2 as stated: every Marker has selector = "[data-test='" + value + "']".
C2_SelectorEverywhere ==
    \A i \in Entries :
        /\ IsStr(objs[i].m, ValueName)
        /\ IsStr(objs[i].m, SelectorName)
        /\ StrOf(objs[i].m, SelectorName) =
              <<"[", "d", "a", "t", "a", "-", "t", "e", "s", "t", "=", "'">>
              \o StrOf(objs[i].m, ValueName) \o <<"'", "]">>

\* C2 (amended): selector derivation law.  Every Marker has
\* selector = "[data-test='" + value + "']", the value unescaped, unless the
\* complex schema that built it declares a child key named value or selector.
C2_SelectorDerivation ==
    \A i \in Entries :
        (~Declares(objs[i].schema, ValueName) /\ ~Declares(objs[i].schema, SelectorName)) =>
            /\ IsStr(objs[i].m, ValueName)
            /\ IsStr(objs[i].m, SelectorName)
            /\ StrOf(objs[i].m, SelectorName) =
                  <<"[", "d", "a", "t", "a", "-", "t", "e", "s", "t", "=", "'">>
                  \o StrOf(objs[i].m, ValueName) \o <<"'", "]">>

\* A keyed container read from a composite, and the Marker of the key "'"
\* under it, whose selector holds the quote as it is.
C2_Witness ==
    \E i, j \in Entries :
        /\ objs[i].m.callable /\ objs[i].via = "get"
        /\ objs[j].via = "call" /\ objs[j].from = i
        /\ StrOf(objs[j].m, ValueName) = StrOf(objs[i].m, ValueName) \o <<"/", "'">>
        /\ StrOf(objs[j].m, SelectorName)[Len(StrOf(objs[j].m, SelectorName)) - 2] = "'"

\* ---------------------------------------------------------------- C3
\* C3 as stated: every Marker's nodeProps is the one-entry mapping
\* {data-test: value}.
C3_NodePropsEverywhere ==
    \A i \in Entries :
        /\ IsStr(objs[i].m, ValueName)
        /\ objs[i].m.props[NodePropsName].kind = "obj"
        /\ objs[i].m.props[NodePropsName].attrs =
              << << <<"d", "a", "t", "a", "-", "t", "e", "s", "t">>, StrOf(objs[i].m, ValueName) >> >>

\* C3 (amended): nodeProps law.  Every Marker's nodeProps is the one-entry
\* mapping {data-test: value}, unless the complex schema that built it
\* declares a child key named value or nodeProps.
C3_NodeProps ==
    \A i \in Entries :
        (~Declares(objs[i].schema, ValueName) /\ ~Declares(objs[i].schema, NodePropsName)) =>
            /\ IsStr(objs[i].m, ValueName)
            /\ objs[i].m.props[NodePropsName].kind = "obj"
            /\ Len(objs[i].m.props[NodePropsName].attrs) = 1
            /\ objs[i].m.props[NodePropsName].attrs =
                  << << <<"d", "a", "t", "a", "-", "t", "e", "s", "t">>, StrOf(objs[i].m, ValueName) >> >>

\* A leaf, a composite and a keyed container, each reached by a read or a
\* call, carry {data-test: value}.
C3_Witness ==
    \E i, j, k \in Entries :
        /\ Arena[objs[i].schema].kind = "simple" /\ objs[i].via = "call"
        /\ Arena[objs[j].schema].kind = "complex" /\ objs[j].via = "get"
        /\ Arena[objs[k].schema].kind = "byKey" /\ objs[k].via = "get"
        /\ objs[i].m.props[NodePropsName].attrs[1][2] = StrOf(objs[i].m, ValueName)

\* ---------------------------------------------------------------- C4
\* The string each key of Keys stands for in a path.
KeyText(key) ==
    CASE key = NumKey(2) -> <<"2">>
      [] key = NumKey(10) -> <<"1", "0">>
      [] OTHER -> key.s

LastSlash(s) == IF HasSlash(s) THEN CHOOSE n \in 1..Len(s) : s[n] = "/" /\ \A k \in (n + 1)..Len(s) : s[k] # "/"
                ELSE 0

\* a and b are different paths that differ only in their final segment.
DifferInLastSegment(a, b) ==
    /\ a # b
    /\ LastSlash(a) = LastSlash(b)
    /\ SubSeq(a, 1, LastSlash(a)) = SubSeq(b, 1, LastSlash(b))

\* Entry j is the result of calling the keyed container i = byKey(S)(v) with
\* a key: it is exactly S(v + "/" + stringify(key)).
KeyedResultIsSchemaOfPath(j) ==
    LET i == objs[j].from
        S == Arena[objs[i].schema].schema
        v == objs[i].arg
    IN /\ Arena[objs[i].schema].kind = "byKey"
       /\ objs[j].schema = S
       /\ objs[j].m = Call(S, v \o <<"/">> \o KeyText(objs[j].key)).result

\* C4 as stated: a keyed call returns S(v + "/" + stringify(x)), and any two
\* keys with different stringifications give values that differ only in the
\* final path segment.
C4_KeyedAddressingAnyKeys ==
    \A j \in Entries :
        objs[j].via = "call" =>
            /\ KeyedResultIsSchemaOfPath(j)
            /\ \A k \in Entries :
                  (objs[k].via = "call" /\ objs[k].from = objs[j].from
                   /\ KeyText(objs[k].key) # KeyText(objs[j].key)) =>
                     /\ IsStr(objs[j].m, ValueName) /\ IsStr(objs[k].m, ValueName)
                     /\ DifferInLastSegment(StrOf(objs[j].m, ValueName), StrOf(objs[k].m, ValueName))

\* C4 (amended): keyed addressing law.  A keyed call returns
\* S(v + "/" + stringify(x)); two keys whose stringifications differ and
\* hold no "/" give, when S declares no child key named value, values that
\* differ only in the final path segment.
C4_KeyedAddressing ==
    \A j \in Entries :
        objs[j].via = "call" =>
            /\ KeyedResultIsSchemaOfPath(j)
            /\ \A k \in Entries :
                  (objs[k].via = "call" /\ objs[k].from = objs[j].from
                   /\ KeyText(objs[k].key) # KeyText(objs[j].key)
                   /\ ~HasSlash(KeyText(objs[k].key)) /\ ~HasSlash(KeyText(objs[j].key))
                   /\ ~Declares(objs[j].schema, ValueName)) =>
                     /\ IsStr(objs[j].m, ValueName) /\ IsStr(objs[k].m, ValueName)
                     /\ DifferInLastSegment(StrOf(objs[j].m, ValueName), StrOf(objs[k].m, ValueName))

\* One container called with the number 10 and with the string "2".
C4_Witness ==
    \E j, k \in Entries :
        /\ objs[j].via = "call" /\ objs[k].via = "call" /\ objs[j].from = objs[k].from
        /\ objs[j].key = NumKey(10) /\ objs[k].key = StrKey(<<"2">>)
        /\ StrOf(objs[j].m, ValueName) = StrOf(objs[objs[j].from].m, ValueName) \o <<"/", "1", "0">>

\* ---------------------------------------------------------------- C5
RECURSIVE SumOver(_, _)
SumOver(f, S) ==
    IF S = {} THEN 0
    ELSE LET x == CHOOSE y \in S : TRUE IN f[x] + SumOver(f, S \ {x})

\* How often the getter of a declared key whose child is s has been read.
ReadsOfChild(s) ==
    SumOver(reads, {p \in DOMAIN reads : objs[p[1]].m.props[p[2]].child = s})

\* How often s was invoked with a root value or by a keyed call.
DirectCalls(s) ==
    Cardinality({i \in Entries : objs[i].schema = s /\ objs[i].via \in {"invoke", "call"}})

Last(s) == s[Len(s)]

\* Entries i and j come from the same operation on equal operands: the same
\* schema invoked with the same root value, the same field read on
\* structurally equal Markers, or structurally equal keyed Markers called
\* with keys of the same text.
SameOperation(i, j) ==
    /\ objs[i].via = objs[j].via
    /\ \/ /\ objs[i].via = "invoke"
          /\ objs[i].schema = objs[j].schema
          /\ objs[i].arg = objs[j].arg
       \/ /\ objs[i].via = "get"
          /\ objs[objs[i].from].m = objs[objs[j].from].m
          /\ Last(objs[i].nav) = Last(objs[j].nav)
       \/ /\ objs[i].via = "call"
          /\ objs[objs[i].from].m = objs[objs[j].from].m
          /\ KeyText(objs[i].key) = KeyText(objs[j].key)

C7_NoEmptySegmentEverywhere ==
    \A i \in Entries :
        /\ IsStr(objs[i].m, ValueName)
        /\ NoEmptySegment(StrOf(objs[i].m, ValueName))

\* C7 (amended): path identifier invariant.  When the root value and every
\* declared key read and stringified key passed on the way are made of
\* non-empty segments, and the schema that built the Marker declares no
\* child key named value, the Marker's value is segments joined with "/",
\* none of them empty.
C7_NoEmptySegment ==
    \A i \in Entries :
        (/\ NoEmptySegment(objs[objs[i].root].arg)
         /\ \A n \in 1..Len(objs[i].nav) : NoEmptySegment(objs[i].nav[n])
         /\ ~Declares(objs[i].schema, ValueName)) =>
            /\ IsStr(objs[i].m, ValueName)
            /\ NoEmptySegment(StrOf(objs[i].m, ValueName))

\* A Marker three steps below the root "r", one of the steps a key that
\* holds a "/" itself.
C7_Witness ==
    \E i \in Entries :
        /\ Len(objs[i].nav) = 3
        /\ objs[i].nav[3] = <<"c", "/", "k">>
        /\ objs[objs[i].root].arg = <<"r">>
        /\ NoEmptySegment(StrOf(objs[i].m, ValueName))

\* ---------------------------------------------------------------- C8
Reserved == {ValueName, SelectorName, NodePropsName}

ChildOf(s, key) == Arena[s].nodes[CHOOSE n \in 1..Len(Arena[s].nodes) : Arena[s].nodes[n][1] = key][2]

\* The attribute name of the Marker m holds what the leaf constructor
\* computes from v.
BaseAttribute(m, name, v) ==
    CASE name = ValueName -> m.props[name].kind = "str" /\ m.props[name].str = v
      [] name = SelectorName ->
            /\ m.props[name].kind = "str"
            /\ m.props[name].str = <<"[", "d", "a", "t", "a", "-", "t", "e", "s", "t", "=", "'">> \o v \o <<"'", "]">>
      [] name = NodePropsName ->
            /\ m.props[name].kind = "obj"
            /\ m.props[name].attrs = << << <<"d", "a", "t", "a", "-", "t", "e", "s", "t">>, v >> >>

\* C8: reserved-name shadowing.  A complex schema that declares a child key
\* k among value, selector, nodeProps is invoked without error; reading k
\* on the result gives the child schema's result for v + "/" + k, not the
\* base attribute; the other Marker attributes of the node are those
\* computed from v.
C8_ReservedShadowing ==
    \A o \in Entries :
        Arena[objs[o].schema].kind = "complex" =>
            \A k \in Reserved :
                IF Declares(objs[o].schema, k)
                THEN /\ objs[o].m.props[k].kind = "get"
                     /\ \A j \in Entries :
                           (objs[j].via = "get" /\ objs[j].from = o /\ Last(objs[j].nav) = k) =>
                               objs[j].m = Call(ChildOf(objs[o].schema, k),
                                                objs[o].arg \o <<"/">> \o k).result
                ELSE BaseAttribute(objs[o].m, k, objs[o].arg)

\* complex({value: #7})("r"), its field value read: the child's Marker for
\* "r/value" comes back, and the node's selector still is that of "r".
C8_Witness ==
    \E o, j \in Entries :
        /\ objs[o].schema = 6 /\ objs[o].arg = <<"r">>
        /\ objs[j].via = "get" /\ objs[j].from = o /\ objs[j].nav = <<ValueName>>
        /\ StrOf(objs[j].m, ValueName) = <<"r", "/", "v", "a", "l", "u", "e">>
        /\ StrOf(objs[o].m, SelectorName) = <<"[", "d", "a", "t", "a", "-", "t", "e", "s", "t", "=", "'", "r", "'", "]">>

\* ---------------------------------------------------------------- C9
\* C9: termination.  Every operation returns having made one schema call,
\* the object it returns being that call's result, and with a call stack at
\* most 2 frames deep for an invocation and 3 for a field read or a keyed
\* call, whatever the nesting of the schema (also one that holds itself)
\* and whatever the root value and keys.
C9_BoundedDepth ==
    /\ SumOver(calls, SchemaIds) = Len(objs)
    /\ ret.ref # 0 =>
          /\ ret.depth >= 1
          /\ ret.depth <= (IF objs[ret.ref].via = "invoke" THEN 2 ELSE 3)

\* The schema that holds itself, invoked and its own field read three
\* times in a row.
C9_Witness ==
    \E i \in Entries :
        /\ objs[i].nav = << <<"s">>, <<"s">>, <<"s">> >>
        /\ objs[i].schema = 5
        /\ ret.ref = i /\ ret.depth = 3

\* --------------------------------------------------------------- C10
CleanText(s) == s # <<>> /\ ~HasSlash(s)

ChildrenOf(s) ==
    {Arena[s].nodes[n][2] : n \in 1..Len(Arena[s].nodes)}
    \cup (IF Arena[s].kind = "byKey" THEN {Arena[s].schema} ELSE {})

\* The schemas of the tree declared under the schemas of S.
RECURSIVE Reach(_)
Reach(S) ==
    LET T == S \cup UNION {ChildrenOf(s) : s \in S}
    IN IF T = S THEN S ELSE Reach(T)

\* Every key declared in the tree of s is non-empty and holds no "/".
CleanTree(s) ==
    \A u \in Reach({s}) : \A n \in 1..Len(Arena[u].nodes) : CleanText(Arena[u].nodes[n][1])

CleanSchemas == {s \in SchemaIds : CleanTree(s)}

\* Entries i and j are reached, by different navigation sequences, from
\* roots of the same schema and root value.
DifferentRoutes(i, j) ==
    /\ objs[objs[i].root].schema = objs[objs[j].root].schema
    /\ objs[objs[i].root].arg = objs[objs[j].root].arg
    /\ objs[i].nav # objs[j].nav

\* C10: identifier uniqueness.  With a root value, declared keys and
\* stringified keys that are non-empty and hold no "/", two different
\* navigation sequences from the root give Markers with different value,
\* selector and nodeProps.  With a declared key that holds a "/", a second
\* navigation sequence can give the value a first one gave: once
\* root.c.i is built from complex({"c/i": simple, c: #4}), reading the field
\* "c/i" of the root gives that same value.
C10_Uniqueness ==
    /\ \A i, j \in Entries :
          (/\ DifferentRoutes(i, j)
           /\ CleanText(objs[objs[i].root].arg)
           /\ objs[objs[i].root].schema \in CleanSchemas
           /\ \A n \in 1..Len(objs[i].nav) : CleanText(objs[i].nav[n])
           /\ \A n \in 1..Len(objs[j].nav) : CleanText(objs[j].nav[n])) =>
              /\ objs[i].m.props[ValueName] # objs[j].m.props[ValueName]
              /\ objs[i].m.props[SelectorName] # objs[j].m.props[SelectorName]
              /\ objs[i].m.props[NodePropsName] # objs[j].m.props[NodePropsName]
    /\ \A j \in Entries :
          (/\ objs[j].nav = << <<"c">>, <<"i">> >>
           /\ Declares(objs[objs[j].root].schema, <<"c", "/", "i">>)
           /\ Len(objs) < MaxObjs) =>
              ENABLED (/\ ReadProp(objs[j].root, <<"c", "/", "i">>)
                       /\ StrOf(objs'[Len(objs')].m, ValueName) = StrOf(objs[j].m, ValueName))

\* Three Markers reached from one root of complex({a: #4, s, l, m}) by three
\* different navigation sequences, two of them of the same length.
C10_Witness ==
    \E i, j, k \in Entries :
        /\ objs[i].root = objs[j].root /\ objs[j].root = objs[k].root
        /\ objs[objs[i].root].schema = 5 /\ objs[objs[i].root].arg = <<"r">>
        /\ objs[i].nav = << <<"a">> >>
        /\ objs[j].nav = << <<"s">> >>
        /\ objs[k].nav = << <<"a">>, <<"i">> >>

\* Two navigation sequences from one root that gave the same value.
C10_Collision ==
    \E i, j \in Entries :
        /\ DifferentRoutes(i, j)
        /\ objs[i].root = objs[j].root
        /\ IsStr(objs[i].m, ValueName) /\ IsStr(objs[j].m, ValueName)
        /\ StrOf(objs[i].m, ValueName) = StrOf(objs[j].m, ValueName)

====
